---- MODULE Spec2Model ----
(***************************************************************************)
(* A model of the replay detail view's FocusArea component                 *)
(* (static/app/views/replays/detail/focusArea.tsx): one mounted component  *)
(* instance, the hook state React keeps for it between renders (the        *)
(* useMemo cell), and one action per event that makes React render it      *)
(* again.  Every action runs the whole function body of FocusArea.         *)
(***************************************************************************)
EXTENDS Integers, Sequences, FiniteSets, TLC

\* ------------------------------------------------------------------ bounds

\* Longest raw span list and raw breadcrumb list of a replay.
MaxSpans == 2
MaxCrumbs == 2

BoundedSeq(S, n) == UNION {[1..k -> S] : k \in 0..n}

\* ------------------------------------------------------------ JS values

\* `null`, the replay prop while the replay is loading.
Null == [tag |-> "null"]
\* `undefined`, the value of `replay?.f()` on a null replay.
Undefined == [tag |-> "undefined"]
\* A TypeError thrown by a property access on null or undefined.
TypeError == [type |-> "TypeError"]

\* ------------------------------------------------- the inputs of a render

\* The case labels of the switch over the active tab.
PanelKeys == {"console", "network", "trace", "issues", "tags", "memory"}
\* What useActiveTabFromLocation() may return: a string, declared or not.
ActiveValues == PanelKeys \cup {"unknown-tab"}

\* The tab named by the location, as the resolver reads it: a tab name, no tab
\* at all, or something that is no tab name.
NoTab == ""
NavigationStates == ActiveValues \cup {NoTab, "%%"}
\* The tab shown when the location names none.
DefaultTab == "console"

\* RawSpan values: two memory spans that differ and two other spans.
SpanValues ==
  { [op |-> "memory", span_id |-> "m1", startTimestamp |-> 1, endTimestamp |-> 1],
    [op |-> "memory", span_id |-> "m2", startTimestamp |-> 2, endTimestamp |-> 2],
    [op |-> "resource.fetch", span_id |-> "f1", startTimestamp |-> 1, endTimestamp |-> 2] }

\* A breadcrumb's `category` is optional: this stands for a missing one.
NoCategory == "(undefined)"

\* RawCrumb values: `category` may be missing, `type` may be other than
\* default.
CrumbValues ==
  { [type |-> "default", category |-> "console", message |-> "x"],
    [type |-> "default", category |-> "console", message |-> "y"],
    [type |-> "default", category |-> "network", message |-> "y"],
    [type |-> "default", category |-> NoCategory, message |-> "z"],
    [type |-> "http", category |-> "console", message |-> "x"] }

\* The event of a replay.
EventValues ==
  { [id |-> "e1", projectID |-> "p1", startTimestamp |-> 1] }

\* What a reader holds.  The span list and the breadcrumb list are read by
\* separate code, so the long lists of one are paired with an empty list of
\* the other, and one-element lists of both are paired with each other.
SpanData == {[spans |-> s, crumbs |-> <<>>] : s \in BoundedSeq(SpanValues, MaxSpans)}
CrumbData == {[spans |-> <<>>, crumbs |-> c] : c \in BoundedSeq(CrumbValues, MaxCrumbs)}
MixedData == {[spans |-> <<s>>, crumbs |-> <<c>>] : s \in SpanValues, c \in CrumbValues}

ReplayReader(instance, event, data) ==
  [instance |-> instance, event |-> event, spans |-> data.spans, crumbs |-> data.crumbs]

\* Two readers built from equal data are still two objects: `instance` tells
\* them apart.  A reader never changes after construction, so an object is
\* identified by the whole record.  The second instance exists for the data
\* the memoised list is derived from.
ReplayReaders ==
  {ReplayReader("A", e, d) : e \in EventValues, d \in SpanData \cup CrumbData \cup MixedData}
  \cup {ReplayReader("B", e, d) : e \in EventValues, d \in SpanData}

\* The `replay` prop: ReplayReader | null.
ReplayProps == ReplayReaders \cup {Null}

\* currentTime and currentHoverTime of the replay context.
ReplayContext(currentTime, currentHoverTime) ==
  [currentTime |-> currentTime, currentHoverTime |-> currentHoverTime,
   setCurrentTime |-> "setCurrentTime", setCurrentHoverTime |-> "setCurrentHoverTime"]
Contexts == {ReplayContext(0, 1), ReplayContext(1, 0)}

\* useOrganization()
organization == [slug |-> "org"]

\* ------------------------------------------------------- ReplayReader

\* The reader's accessors return what it was built from.
getRawSpans(replay) == replay.spans
getRawCrumbs(replay) == replay.crumbs
getEvent(replay) == replay.event
isMemorySpan(span) == span.op = "memory"
isNotMemorySpan(span) == span.op # "memory"

\* The type guard of sentry/types/breadcrumbs.
isBreadcrumbTypeDefault(breadcrumb) == breadcrumb.type = "default"

\* ------------------------------------------- useActiveTabFromLocation

\* The active tab of a location: the tab it names, and the default tab when it
\* names none or what it names is no tab.
useActiveTabFromLocation(nav) ==
  IF nav \in ActiveValues THEN nav ELSE DefaultTab

\* --------------------------------------------------------- focusArea.tsx

\* breadcrumb.category || ''
CategoryOrEmpty(breadcrumb) ==
  IF breadcrumb.category = NoCategory THEN "" ELSE breadcrumb.category

\* A slip: the category filter left out.
getBreadcrumbsByCategory_anyCategory(breadcrumbs, categories) ==
  SelectSeq(breadcrumbs, isBreadcrumbTypeDefault)

getBreadcrumbsByCategory(breadcrumbs, categories) ==
  LET hasCategory(breadcrumb) == CategoryOrEmpty(breadcrumb) \in categories
  IN SelectSeq(SelectSeq(breadcrumbs, isBreadcrumbTypeDefault), hasCategory)

\* The callback handed to useMemo: replay?.getRawSpans().filter(replay.isMemorySpan).
\* On a replay, filter builds a new array, whose reference is `ref`.
memorySpansFactory(replay, ref) ==
  IF replay = Null
    THEN Undefined
    ELSE [ref |-> ref, items |-> SelectSeq(getRawSpans(replay), isMemorySpan)]

\* The reference of a newly allocated array: one that no live array has.  The
\* only array the component keeps alive is the one in its memo cell.
freshRef(cell) ==
  IF cell.mounted /\ cell.value # Undefined /\ cell.value.ref = 1 THEN 2 ELSE 1

\* What a reader was built from, whichever instance holds it.
dataOf(deps) ==
  [i \in 1..Len(deps) |->
     IF deps[i] = Null THEN Null
     ELSE [event |-> deps[i].event, spans |-> deps[i].spans, crumbs |-> deps[i].crumbs]]

\* A slip: the dependencies compared by value, not by identity.
depsChanged_byValue(cell, deps) == ~cell.mounted \/ dataOf(cell.deps) # dataOf(deps)

\* A slip: useMemo(callback, []), the replay left out of the dependencies.
depsChanged_mountOnly(cell, deps) == ~cell.mounted

\* Whether useMemo runs its callback again: on mount, and when a dependency
\* is not the one of the last render (Object.is).
depsChanged(cell, deps) == ~cell.mounted \/ cell.deps # deps

\* A slip: useMemo(callback) with no dependency list, which runs the callback
\* on every render.
useMemo_everyRender(cell, replay) ==
  LET value == memorySpansFactory(replay, freshRef(cell))
  IN [value |-> value,
      cell |-> [mounted |-> TRUE, deps |-> <<replay>>, value |-> value],
      ran |-> TRUE]

\* useMemo(callback, [replay]) on the component's memo cell: the value, the
\* cell after the call and whether the callback ran.
useMemo(cell, replay) ==
  IF depsChanged(cell, <<replay>>)
    THEN LET value == memorySpansFactory(replay, freshRef(cell))
         IN [value |-> value,
             cell |-> [mounted |-> TRUE, deps |-> <<replay>>, value |-> value],
             ran |-> TRUE]
    ELSE [value |-> cell.value, cell |-> cell, ran |-> FALSE]

\* A slip: the early return left out.
notReady_missing(replay, memorySpans) == FALSE

\* A slip: if (!replay || !memorySpans?.length), which takes an empty list for
\* a missing one.
notReady_emptyIsMissing(replay, memorySpans) ==
  replay = Null \/ memorySpans = Undefined \/ memorySpans.items = <<>>

\* if (!replay || !memorySpans): an empty array is truthy.
notReady(replay, memorySpans) == replay = Null \/ memorySpans = Undefined

Placeholder == [type |-> "Placeholder", props |-> [height |-> "150px"]]
\* `return null`
NullOutput == [type |-> "null"]

\* A slip: the two timestamps kept under their old names beside the new ones.
fakeSpan_keepsTimestamps(span) ==
  [f \in DOMAIN span \cup {"timestamp", "start_timestamp", "parent_span_id"} |->
     CASE f = "timestamp" -> span.endTimestamp
       [] f = "start_timestamp" -> span.startTimestamp
       [] f = "parent_span_id" -> "replay_network_trace"
       [] OTHER -> span[f]]

\* ({startTimestamp, endTimestamp, ...span}) => ({...span, timestamp, start_timestamp, parent_span_id})
fakeSpan(span) ==
  [f \in (DOMAIN span \ {"startTimestamp", "endTimestamp"})
           \cup {"timestamp", "start_timestamp", "parent_span_id"} |->
     CASE f = "timestamp" -> span.endTimestamp
       [] f = "start_timestamp" -> span.startTimestamp
       [] f = "parent_span_id" -> "replay_network_trace"
       [] OTHER -> span[f]]

mapSpans(spans) == [i \in 1..Len(spans) |-> fakeSpan(spans[i])]

nonMemorySpansEntry(replay) ==
  [type |-> "spans",
   data |-> mapSpans(SelectSeq(getRawSpans(replay), isNotMemorySpan))]

fakeTraceContext ==
  [trace |-> [type |-> "trace", op |-> "Network", description |-> "WIP",
              span_id |-> "replay_network_trace", status |-> "ok"]]

\* {...event, contexts: {...}, entries: [nonMemorySpansEntry]}
performanceEvent(event, entry) ==
  [f \in (IF event = Undefined THEN {} ELSE DOMAIN event) \cup {"contexts", "entries"} |->
     CASE f = "contexts" -> fakeTraceContext
       [] f = "entries" -> <<entry>>
       [] OTHER -> event[f]]

\* What a call leaves behind: the element returned (or the error thrown), the
\* panel elements built and the lists derived on the way.
returned(el, derived) == [output |-> el, built |-> {el}, derived |-> derived]
thrown(derived) == [output |-> TypeError, built |-> {}, derived |-> derived]

\* event?.startTimestamp
optStartTimestamp(event) ==
  IF event = Undefined THEN Undefined ELSE event.startTimestamp

\* case 'console': replay?.getRawCrumbs() is undefined on a null replay, and
\* getBreadcrumbsByCategory then calls filter on undefined.
caseConsole(replay, event) ==
  IF replay = Null
    THEN thrown({})
    ELSE returned([type |-> "Console",
                   props |-> [breadcrumbs |->
                                getBreadcrumbsByCategory(getRawCrumbs(replay), {"console"}),
                              startTimestamp |-> optStartTimestamp(event)]],
                  {"consoleMessages"})

\* case 'network'
caseNetwork(replay, event) ==
  IF replay = Null
    THEN thrown({})
    ELSE returned([type |-> "Spans",
                   props |-> [organization |-> organization,
                              event |-> performanceEvent(event, nonMemorySpansEntry(replay))]],
                  {"nonMemorySpans"})

\* case 'trace'
caseTrace(event) ==
  returned([type |-> "Trace", props |-> [organization |-> organization, event |-> event]], {})

\* case 'issues': event.id throws on an undefined event.
caseIssues(event) ==
  IF event = Undefined
    THEN thrown({})
    ELSE returned([type |-> "IssueList",
                   props |-> [replayId |-> event.id, projectId |-> event.projectID]], {})

\* case 'tags'
caseTags(event) ==
  returned([type |-> "TagsTable",
            props |-> [generateUrl |-> "() => ''", event |-> event, query |-> ""]], {})

\* A slip: the current time and the hover time handed over in each other's place.
caseMemory_swapsTimes(event, memorySpans, ctx) ==
  returned([type |-> "MemoryChart",
            props |-> [currentTime |-> ctx.currentHoverTime,
                       currentHoverTime |-> ctx.currentTime,
                       memorySpans |-> memorySpans,
                       setCurrentTime |-> ctx.setCurrentTime,
                       setCurrentHoverTime |-> ctx.setCurrentHoverTime,
                       startTimestamp |-> optStartTimestamp(event)]], {})

\* case 'memory'
caseMemory(event, memorySpans, ctx) ==
  returned([type |-> "MemoryChart",
            props |-> [currentTime |-> ctx.currentTime,
                       currentHoverTime |-> ctx.currentHoverTime,
                       memorySpans |-> memorySpans,
                       setCurrentTime |-> ctx.setCurrentTime,
                       setCurrentHoverTime |-> ctx.setCurrentHoverTime,
                       startTimestamp |-> optStartTimestamp(event)]], {})

\* A slip: the default case renders the console instead of nothing.
switchActive_defaultConsole(active, replay, event, memorySpans, ctx) ==
  CASE active = "network" -> caseNetwork(replay, event)
    [] active = "trace" -> caseTrace(event)
    [] active = "issues" -> caseIssues(event)
    [] active = "tags" -> caseTags(event)
    [] active = "memory" -> caseMemory(event, memorySpans, ctx)
    [] OTHER -> caseConsole(replay, event)

\* A slip: no case for 'tags', which then takes the default.
switchActive_missingTags(active, replay, event, memorySpans, ctx) ==
  CASE active = "console" -> caseConsole(replay, event)
    [] active = "network" -> caseNetwork(replay, event)
    [] active = "trace" -> caseTrace(event)
    [] active = "issues" -> caseIssues(event)
    [] active = "memory" -> caseMemory(event, memorySpans, ctx)
    [] OTHER -> [output |-> NullOutput, built |-> {}, derived |-> {}]

\* A slip: case 'trace' builds its element without returning it and falls
\* through to case 'issues'.
switchActive_fallThrough(active, replay, event, memorySpans, ctx) ==
  CASE active = "console" -> caseConsole(replay, event)
    [] active = "network" -> caseNetwork(replay, event)
    [] active = "trace" ->
         [output |-> caseIssues(event).output,
          built |-> caseTrace(event).built \cup caseIssues(event).built,
          derived |-> {}]
    [] active = "issues" -> caseIssues(event)
    [] active = "tags" -> caseTags(event)
    [] active = "memory" -> caseMemory(event, memorySpans, ctx)
    [] OTHER -> [output |-> NullOutput, built |-> {}, derived |-> {}]

\* A slip: no default case; the function then returns undefined, which React
\* refuses with an error.
switchActive_noDefault(active, replay, event, memorySpans, ctx) ==
  CASE active = "console" -> caseConsole(replay, event)
    [] active = "network" -> caseNetwork(replay, event)
    [] active = "trace" -> caseTrace(event)
    [] active = "issues" -> caseIssues(event)
    [] active = "tags" -> caseTags(event)
    [] active = "memory" -> caseMemory(event, memorySpans, ctx)
    [] OTHER -> thrown({})

\* The switch over the active tab; every case returns, none falls through.
switchActive(active, replay, event, memorySpans, ctx) ==
  CASE active = "console" -> caseConsole(replay, event)
    [] active = "network" -> caseNetwork(replay, event)
    [] active = "trace" -> caseTrace(event)
    [] active = "issues" -> caseIssues(event)
    [] active = "tags" -> caseTags(event)
    [] active = "memory" -> caseMemory(event, memorySpans, ctx)
    [] OTHER -> [output |-> NullOutput, built |-> {}, derived |-> {}]

\* A slip: the console breadcrumbs derived before the switch, for every tab.
afterGuard_hoistsConsole(replay, active, memorySpans, ctx) ==
  IF replay = Null
    THEN thrown({}) @@ [reader |-> replay]
    ELSE LET res == switchActive(active, replay, getEvent(replay), memorySpans, ctx)
         IN [res EXCEPT !.derived = @ \cup {"consoleMessages"}] @@ [reader |-> replay]

\* A slip: the spans that are no memory spans derived before the switch, for
\* every tab.
afterGuard_hoistsNetwork(replay, active, memorySpans, ctx) ==
  IF replay = Null
    THEN thrown({}) @@ [reader |-> replay]
    ELSE LET res == switchActive(active, replay, getEvent(replay), memorySpans, ctx)
         IN [res EXCEPT !.derived = @ \cup {"nonMemorySpans"}] @@ [reader |-> replay]

\* A slip: on the network tab, contexts and entries assigned to the replay's
\* event instead of to a copy of it.
afterGuard_assignsToEvent(replay, active, memorySpans, ctx) ==
  IF replay = Null
    THEN thrown({}) @@ [reader |-> replay]
    ELSE switchActive(active, replay, getEvent(replay), memorySpans, ctx)
           @@ [reader |->
                 IF active = "network"
                   THEN [replay EXCEPT
                           !.event = performanceEvent(@, nonMemorySpansEntry(replay))]
                   ELSE replay]

\* const event = replay.getEvent(), then the switch; on a null replay the
\* call throws.  `reader` is the replay object as the call leaves it: filter,
\* map and the spreads build new objects and assign to none of the reader's.
afterGuard(replay, active, memorySpans, ctx) ==
  IF replay = Null
    THEN thrown({}) @@ [reader |-> replay]
    ELSE switchActive(active, replay, getEvent(replay), memorySpans, ctx)
           @@ [reader |-> replay]

\* The hooks FocusArea calls, in the order of its first lines.
hookCalls ==
  <<"useActiveTabFromLocation", "useReplayContext", "useOrganization", "useMemo">>

\* A slip: no early return, and the event read with replay?.getEvent().
FocusArea_noGuard(replay, active, ctx, cell) ==
  LET memoised == useMemo(cell, replay)
      memorySpans == memoised.value
      event == IF replay = Null THEN Undefined ELSE getEvent(replay)
  IN [cell |-> memoised.cell, factoryRan |-> memoised.ran, memorySpans |-> memorySpans,
      reader |-> replay, steps |-> hookCalls \o <<"switch">>]
       @@ switchActive(active, replay, event, memorySpans, ctx)

\* A slip: the replay tested, and the placeholder returned, before the hooks
\* are called.
FocusArea_returnsBeforeHooks(replay, active, ctx, cell) ==
  IF replay = Null
    THEN [cell |-> cell, factoryRan |-> FALSE, memorySpans |-> Undefined,
          output |-> Placeholder, built |-> {}, derived |-> {},
          reader |-> replay, steps |-> <<"guard">>]
    ELSE LET memoised == useMemo(cell, replay)
         IN [cell |-> memoised.cell, factoryRan |-> memoised.ran,
             memorySpans |-> memoised.value,
             steps |-> <<"guard">> \o hookCalls \o <<"getEvent", "switch">>]
              @@ afterGuard(replay, active, memoised.value, ctx)

\* One call of FocusArea({replay}) with the hooks' values `active` and `ctx`,
\* on the memo cell `cell` of the mounted component.  `steps` lists what the
\* call did, in order: the four hooks, the guard and, past the guard, the
\* read of the event and the switch.
FocusArea(replay, active, ctx, cell) ==
  LET memoised == useMemo(cell, replay)
      memorySpans == memoised.value
      hooks == [cell |-> memoised.cell, factoryRan |-> memoised.ran,
                memorySpans |-> memorySpans]
  IN IF notReady(replay, memorySpans)
       THEN hooks @@ [output |-> Placeholder, built |-> {}, derived |-> {},
                      reader |-> replay, steps |-> hookCalls \o <<"guard">>]
       ELSE hooks @@ [steps |-> hookCalls \o <<"guard", "getEvent", "switch">>]
              @@ afterGuard(replay, active, memorySpans, ctx)

\* ------------------------------------------------------------ react-router

\* A pathname is the sequence of its segments, the slashes left out; a segment
\* is a sequence of atoms, one atom unless it carries a character that a route
\* pattern spells out next to a parameter.
Seg(s) == <<s>>

\* The parts of a route pattern: a literal segment, and a parameter, which takes
\* the characters up to the next slash but for a literal that follows it.
L(s) == [lit |-> s]
P(name) == [param |-> name, suffix |-> <<>>]
PThen(name, suffix) == [param |-> name, suffix |-> suffix]

\* A route pattern: absolute when it starts with a slash; "*" takes the rest.
Abs(segments) == [absolute |-> TRUE, segments |-> segments, splat |-> FALSE]
Rel(segments) == [absolute |-> FALSE, segments |-> segments, splat |-> FALSE]
Splat == [absolute |-> FALSE, segments |-> <<>>, splat |-> TRUE]
NoPath == [absolute |-> FALSE, segments |-> <<>>, splat |-> FALSE, none |-> TRUE]

NoParams == [n \in {} |-> <<>>]

\* Whether a part of a pattern matches a segment.
matchSegment(part, seg) ==
  IF "lit" \in DOMAIN part
    THEN seg = <<part.lit>>
    ELSE /\ Len(seg) > Len(part.suffix)
         /\ SubSeq(seg, Len(seg) - Len(part.suffix) + 1, Len(seg)) = part.suffix

\* matchPattern(pattern, pathname): the pattern must match a prefix of the
\* pathname; what is left and the parameters come back.
matchPattern(pattern, pathname) ==
  IF pattern.splat
    THEN [matched |-> TRUE, remaining |-> <<>>, params |-> NoParams]
    ELSE LET n == Len(pattern.segments)
             ok == /\ Len(pathname) >= n
                   /\ \A i \in 1..n : matchSegment(pattern.segments[i], pathname[i])
             at == {i \in 1..n : "param" \in DOMAIN pattern.segments[i]}
             names == {pattern.segments[i].param : i \in at}
         IN IF ~ok
              THEN [matched |-> FALSE]
              ELSE [matched |-> TRUE,
                    remaining |-> SubSeq(pathname, n + 1, Len(pathname)),
                    params |->
                      [name \in names |->
                         LET i == CHOOSE i \in at : pattern.segments[i].param = name
                         IN SubSeq(pathname[i], 1,
                                   Len(pathname[i]) - Len(pattern.segments[i].suffix))]]

\* formatPattern(pattern, params): the pathname of a pattern under parameters.
formatPattern(pattern, params) ==
  [i \in 1..Len(pattern.segments) |->
     LET part == pattern.segments[i]
     IN IF "lit" \in DOMAIN part
          THEN <<part.lit>>
          ELSE params[part.param] \o part.suffix]

\* The route elements.  A Redirect is a route whose path is its `from`.
NoComponent == [type |-> "(no component)"]
Route(path, component, children) ==
  [kind |-> "Route", path |-> path, component |-> component, children |-> children]
GetComponentRoute(path, getComponent, children) ==
  [kind |-> "Route", path |-> path, component |-> NoComponent,
   getComponent |-> getComponent, children |-> children]
IndexRoute(component) ==
  [kind |-> "IndexRoute", path |-> NoPath, component |-> component, children |-> <<>>]
GetComponentIndexRoute(getComponent) ==
  [kind |-> "IndexRoute", path |-> NoPath, component |-> NoComponent,
   getComponent |-> getComponent, children |-> <<>>]
Redirect(from, to) ==
  [kind |-> "Redirect", path |-> from, to |-> to, component |-> NoComponent,
   children |-> <<>>]
IndexRedirect(to) ==
  [kind |-> "IndexRedirect", path |-> NoPath, to |-> to, component |-> NoComponent,
   children |-> <<>>]

IsIndex(route) == route.kind \in {"IndexRoute", "IndexRedirect"}
IsPathless(route) == route.kind = "Route" /\ route.path = NoPath

\* The index route of a route: its own, or the one of a pathless child.
RECURSIVE getIndexRoute(_)
getIndexRoute(route) ==
  LET own == {i \in 1..Len(route.children) : IsIndex(route.children[i])}
      below == {i \in 1..Len(route.children) :
                  /\ IsPathless(route.children[i])
                  /\ getIndexRoute(route.children[i]) # <<>>}
  IN IF own # {}
       THEN <<route.children[CHOOSE i \in own : \A j \in own : i <= j]>>
       ELSE IF below # {}
         THEN getIndexRoute(route.children[CHOOSE i \in below : \A j \in below : i <= j])
         ELSE <<>>

NoMatch == [matched |-> FALSE]
NoRemaining == [alive |-> FALSE, segments |-> <<>>]
Remaining(segments) == [alive |-> TRUE, segments |-> segments]

\* matchRoutes tries the routes in their order and takes the first that
\* matches; matchRouteDeep matches one route and then its children.  A match
\* is the branch of routes from the top to the leaf, and the parameters.
RECURSIVE matchRoutes(_, _, _, _)
RECURSIVE matchRouteDeep(_, _, _, _)
matchRouteDeep(route, pathname, remaining, params) ==
  LET pattern == route.path
      start == IF pattern.absolute THEN Remaining(pathname) ELSE remaining
      startParams == IF pattern.absolute THEN NoParams ELSE params
      tried == start.alive /\ pattern # NoPath
      \* The one value of an expression is taken from its singleton, so that
      \* the match of the pattern is worked out once.
      here == CHOOSE h \in
                {[left |-> IF tried
                             THEN IF m.matched THEN Remaining(m.remaining)
                                               ELSE NoRemaining
                             ELSE start,
                  bound |-> IF tried /\ m.matched THEN m.params @@ startParams
                                                  ELSE startParams]
                   : m \in {matchPattern(pattern, start.segments)}} : TRUE
  IN IF IsIndex(route)
       THEN NoMatch
       ELSE CHOOSE found \in
              {IF tried /\ h.left.alive /\ h.left.segments = <<>>
                 THEN [matched |-> TRUE, branch |-> <<route>> \o getIndexRoute(route),
                       params |-> h.bound]
                 ELSE CHOOSE deeper \in
                        {IF below.matched
                           THEN [below EXCEPT !.branch = <<route>> \o @]
                           ELSE NoMatch
                          : below \in {matchRoutes(children, pathname, left, bound)
                                         : children \in {route.children},
                                           left \in {h.left}, bound \in {h.bound}}}
                        : TRUE
                : h \in {here}} : TRUE

matchRoutes(routes, pathname, remaining, params) ==
  IF routes = <<>>
    THEN NoMatch
    ELSE CHOOSE found \in
           {IF first.matched
              THEN first
              ELSE matchRoutes(rest, pathname, remaining, params)
             : first \in {matchRouteDeep(route, pathname, remaining, params)
                           : route \in {Head(routes)}},
               rest \in {Tail(routes)}} : TRUE

\* ------------------------------------------------------------ routes.tsx

\* Calls of routes() by one caller, and callbacks registered for one hook name.
MaxCalls == 2
MaxHooks == 2

\* The two places that load the routes: the SDK's initialisation and Main.
Callers == {"sdk", "main"}
\* Callbacks that may be registered in HookStore under 'routes'.
HookCallbacks == {"h1", "h2"}

\* import(module): the module, whose default export is the view.
Module(name) == [default |-> [type |-> name]]

\* errorHandler(Component): the component behind an error boundary.
errorHandler(name) == [type |-> name]

\* A slip: the resolver called when the component is made.
makeLazyloadComponent_eager(resolve) ==
  [type |-> "LazyloadComponent", resolve |-> resolve, invoked |-> {resolve}]

\* makeLazyloadComponent(resolve): a component that keeps the resolver for its
\* render; `invoked` are the resolvers called in making it.
makeLazyloadComponent(resolve) ==
  [type |-> "LazyloadComponent", resolve |-> resolve, invoked |-> {}]

mk(resolve) == makeLazyloadComponent(resolve)

\* What the component renders: <SafeLazyLoad component={resolve} {...componentProps} />
renderComponent(component, componentProps) ==
  IF component.type = "LazyloadComponent"
    THEN [type |-> "SafeLazyLoad",
          props |-> componentProps @@ [component |-> component.resolve]]
    ELSE [type |-> component.type, props |-> componentProps]

\* lazyLoad(load): the getComponent of a route, which keeps the resolver for
\* the router's call.
lazyLoad(load) == [type |-> "getComponent", load |-> load, invoked |-> {}]

\* A slip: a rejected load reported to the router.
lazyLoadSettled_reportsError(outcome, module) ==
  IF outcome = "fulfilled"
    THEN <<[error |-> Null, component |-> module.default]>>
    ELSE <<[error |-> [type |-> "Error"], component |-> Undefined]>>

\* load().then(module => cb(null, module.default)): the calls of cb once the
\* promise is settled; no handler is given for a rejection.
lazyLoadSettled(outcome, module) ==
  IF outcome = "fulfilled"
    THEN <<[error |-> Null, component |-> module.default]>>
    ELSE <<>>

\* The route a callback registered under 'routes' returns: one of a path of
\* its own, and one of a path that a route of the application has.
hookRoute(callback) ==
  IF callback = "h1"
    THEN Route(Abs(<<L("hook"), L("page"), L("view")>>), errorHandler("HookPage"), <<>>)
    ELSE Route(Abs(<<L("account")>>), errorHandler("HookAccount"), <<>>)

\* hook(name): HookStore.get(name).map(cb => cb()), the route of each callback
\* registered under the name, in the order of registration.
hook(callbacks) == [i \in 1..Len(callbacks) |-> hookRoute(callbacks[i])]

\* EXPERIMENTAL_SPA ? <Route path="/auth/login/" ...> : null
experimentalSpaRoutes(spa) ==
  IF spa
    THEN <<Route(Abs(<<L("auth"), L("login")>>), errorHandler("AuthLayout"),
                 <<IndexRoute(mk("sentry/views/auth/login"))>>)>>
    ELSE <<>>

\* Routes of rootRoutes, a fragment: its routes are children of the root.
rootRoutes ==
  << IndexRoute(mk("sentry/views/app/root")),
     Route(Abs(<<L("accept"), P("memberId"), P("token")>>),
           mk("sentry/views/acceptOrganizationInvite"), <<>>),
     GetComponentRoute(Abs(<<L("extensions"), P("integrationSlug"), L("link")>>),
                       lazyLoad("sentry/views/integrationOrganizationLink"), <<>>),
     Redirect(Abs(<<L("account")>>), Abs(<<L("settings"), L("account"), L("details")>>)),
     Route(Abs(<<L("onboarding"), P("orgId")>>), errorHandler("OrganizationContextContainer"),
           << IndexRedirect(Rel(<<L("welcome")>>)),
              Route(Rel(<<P("step")>>), mk("sentry/views/onboarding/onboardingController"),
                    <<>>) >>) >>

\* Routes of projectSettingsRoutes.
projectSettingsRoutes ==
  GetComponentRoute(Rel(<<L("projects"), P("projectId")>>),
                    lazyLoad("sentry/views/settings/project/projectSettingsLayout"),
                    << IndexRoute(mk("sentry/views/settings/projectGeneralSettings")),
                       Route(Rel(<<L("teams")>>),
                             mk("sentry/views/settings/project/projectTeams"), <<>>) >>)

legacySettingsRedirects ==
  << Redirect(Rel(<<P("projectId")>>), Rel(<<L("projects"), P("projectId")>>)),
     Redirect(Rel(<<P("projectId"), L("alerts")>>),
              Rel(<<L("projects"), P("projectId"), L("alerts")>>)) >>

settingsRoutes ==
  Route(Abs(<<L("settings")>>), errorHandler("SettingsWrapper"),
        << GetComponentIndexRoute(lazyLoad("sentry/views/settings/settingsIndex")),
           Route(Rel(<<P("orgId")>>), NoComponent,
                 <<projectSettingsRoutes>> \o legacySettingsRedirects) >>)

\* Routes of legacyOrgRedirects.
legacyOrgRedirects ==
  Route(Abs(<<P("orgId"), P("projectId")>>), NoComponent,
        << IndexRoute(errorHandler("redirectDeprecatedProjectRoute")),
           Route(Rel(<<L("issues")>>), errorHandler("redirectDeprecatedProjectRoute"), <<>>),
           Route(Rel(<<L("releases"), P("version")>>),
                 errorHandler("redirectDeprecatedProjectRoute"), <<>>) >>)

\* Routes of organizationRoutes: a route with no path.
organizationRoutes ==
  Route(NoPath, errorHandler("OrganizationDetails"), <<settingsRoutes, legacyOrgRedirects>>)

\* The redirects of <Route path=":projectId/settings/">, each as written.
projectSettingsRedirects ==
  << Redirect(Rel(<<L("teams")>>),
              Abs(<<L("settings"), P("orgId"), L("projects"), P("projectId"), L("teams")>>)),
     Redirect(Rel(<<L("alerts")>>),
              Abs(<<L("settings"), P("orgId"), L("projects"), P("projectId"), L("alerts")>>)),
     Redirect(Rel(<<L("alerts"), L("rules")>>),
              Abs(<<L("settings"), P("orgId"), L("projects"), P("projectId"), L("alerts"), L("rules")>>)),
     Redirect(Rel(<<L("alerts"), L("rules"), L("new")>>),
              Abs(<<L("settings"), P("orgId"), L("projects"), P("projectId"), L("alerts"), L("rules"), L("new")>>)),
     Redirect(Rel(<<L("alerts"), L("rules"), P("ruleId")>>),
              Abs(<<L("settings"), P("orgId"), L("projects"), P("projectId"), L("alerts"), L("rules"), P("ruleId")>>)),
     Redirect(Rel(<<L("environments")>>),
              Abs(<<L("settings"), P("orgId"), L("projects"), P("projectId"), L("environments")>>)),
     Redirect(Rel(<<L("environments"), L("hidden")>>),
              Abs(<<L("settings"), P("orgId"), L("projects"), P("projectId"), L("environments"), L("hidden")>>)),
     Redirect(Rel(<<L("tags")>>),
              Abs(<<L("settings"), L("projects"), P("orgId"), L("projects"), P("projectId"), L("tags")>>)),
     Redirect(Rel(<<L("issue-tracking")>>),
              Abs(<<L("settings"), P("orgId"), L("projects"), P("projectId"), L("issue-tracking")>>)),
     Redirect(Rel(<<L("release-tracking")>>),
              Abs(<<L("settings"), P("orgId"), L("projects"), P("projectId"), L("release-tracking")>>)),
     Redirect(Rel(<<L("ownership")>>),
              Abs(<<L("settings"), P("orgId"), L("projects"), P("projectId"), L("ownership")>>)),
     Redirect(Rel(<<L("data-forwarding")>>),
              Abs(<<L("settings"), P("orgId"), L("projects"), P("projectId"), L("data-forwarding")>>)),
     Redirect(Rel(<<L("debug-symbols")>>),
              Abs(<<L("settings"), P("orgId"), L("projects"), P("projectId"), L("debug-symbols")>>)),
     Redirect(Rel(<<L("processing-issues")>>),
              Abs(<<L("settings"), P("orgId"), L("projects"), P("projectId"), L("processing-issues")>>)),
     Redirect(Rel(<<L("filters")>>),
              Abs(<<L("settings"), P("orgId"), L("projects"), P("projectId"), L("filters")>>)),
     Redirect(Rel(<<L("hooks")>>),
              Abs(<<L("settings"), P("orgId"), L("projects"), P("projectId"), L("hooks")>>)),
     Redirect(Rel(<<L("keys")>>),
              Abs(<<L("settings"), P("orgId"), L("projects"), P("projectId"), L("keys")>>)),
     Redirect(Rel(<<L("keys"), P("keyId")>>),
              Abs(<<L("settings"), P("orgId"), L("projects"), P("projectId"), L("keys"), P("keyId")>>)),
     Redirect(Rel(<<L("user-feedback")>>),
              Abs(<<L("settings"), P("orgId"), L("projects"), P("projectId"), L("user-feedback")>>)),
     Redirect(Rel(<<L("security-headers")>>),
              Abs(<<L("settings"), P("orgId"), L("projects"), P("projectId"), L("security-headers")>>)),
     Redirect(Rel(<<L("security-headers"), L("csp")>>),
              Abs(<<L("settings"), P("orgId"), L("projects"), P("projectId"), L("security-headers"), L("csp")>>)),
     Redirect(Rel(<<L("security-headers"), L("expect-ct")>>),
              Abs(<<L("settings"), P("orgId"), L("projects"), P("projectId"), L("security-headers"), L("expect-ct")>>)),
     Redirect(Rel(<<L("security-headers"), L("hpkp")>>),
              Abs(<<L("settings"), P("orgId"), L("projects"), P("projectId"), L("security-headers"), L("hpkp")>>)),
     Redirect(Rel(<<L("plugins")>>),
              Abs(<<L("settings"), P("orgId"), L("projects"), P("projectId"), L("plugins")>>)),
     Redirect(Rel(<<L("plugins"), P("pluginId")>>),
              Abs(<<L("settings"), P("orgId"), L("projects"), P("projectId"), L("plugins"), P("pluginId")>>)),
     Redirect(Rel(<<L("integrations"), P("providerKey")>>),
              Abs(<<L("settings"), P("orgId"), L("projects"), P("projectId"), L("integrations"), P("providerKey")>>)),
     Redirect(Rel(<<L("install")>>),
              Abs(<<L("settings"), P("orgId"), L("projects"), P("projectId"), L("install")>>)),
     Redirect(Rel(<<L("install"), PThen("platform", <<"'">>)>>),
              Abs(<<L("settings"), P("orgId"), L("projects"), P("projectId"), L("install"), P("platform")>>)) >>

legacyRedirectRoutes ==
  Route(Abs(<<P("orgId")>>), NoComponent,
        << IndexRedirect(Abs(<<L("organizations"), P("orgId")>>)),
           Route(Rel(<<P("projectId"), L("settings")>>), NoComponent,
                 projectSettingsRedirects),
           Redirect(Rel(<<P("projectId"), L("group"), P("groupId")>>),
                    Rel(<<L("issues"), P("groupId")>>)),
           Redirect(Rel(<<P("projectId"), L("issues"), P("groupId")>>),
                    Abs(<<L("organizations"), P("orgId"), L("issues"), P("groupId")>>)),
           Route(Rel(<<P("projectId"), L("events"), P("eventId")>>),
                 errorHandler("ProjectEventRedirect"), <<>>) >>)

\* A slip: the catch-all placed before the hook routes.
appRoutes_catchAllBeforeHooks(spa, hookRoutes) ==
  Route(NoPath, NoComponent,
        experimentalSpaRoutes(spa) \o
        <<Route(Abs(<<>>), errorHandler("App"),
                rootRoutes \o <<organizationRoutes, legacyRedirectRoutes>>
                \o <<Route(Splat, errorHandler("RouteNotFound"), <<>>)>>
                \o hookRoutes)>>)

\* A slip: the experimental routes placed under the root route.
appRoutes_spaUnderApp(spa, hookRoutes) ==
  Route(NoPath, NoComponent,
        <<Route(Abs(<<>>), errorHandler("App"),
                experimentalSpaRoutes(spa)
                \o rootRoutes \o <<organizationRoutes, legacyRedirectRoutes>>
                \o hookRoutes
                \o <<Route(Splat, errorHandler("RouteNotFound"), <<>>)>>)>>)

\* appRoutes: under the route with no path come the experimental routes and
\* the root route, whose children are the routes of the application, the hook
\* routes and the catch-all.
appRoutes(spa, hookRoutes) ==
  Route(NoPath, NoComponent,
        experimentalSpaRoutes(spa) \o
        <<Route(Abs(<<>>), errorHandler("App"),
                rootRoutes \o <<organizationRoutes, legacyRedirectRoutes>>
                \o hookRoutes
                \o <<Route(Splat, errorHandler("RouteNotFound"), <<>>)>>)>>)

\* buildRoutes(): a new tree, whose reference is `ref`.
buildRoutes(spa, callbacks, ref) ==
  appRoutes(spa, hook(callbacks)) @@ [ref |-> ref]

\* The resolvers called in making the components of a route and of the routes
\* below it.
RECURSIVE invokedIn(_)
invokedIn(route) ==
  (IF "invoked" \in DOMAIN route.component THEN route.component.invoked ELSE {})
  \cup (IF "getComponent" \in DOMAIN route THEN route.getComponent.invoked ELSE {})
  \cup UNION {invokedIn(route.children[i]) : i \in 1..Len(route.children)}

\* A slip: export const routes = buildRoutes, with no memoize.
routes_notMemoized(cached, spa, callbacks, built) ==
  [tree |-> buildRoutes(spa, callbacks, built + 1),
   cached |-> cached, built |-> built + 1, hooksRun |-> callbacks,
   invoked |-> invokedIn(buildRoutes(spa, callbacks, built + 1))]

\* A slip: a cache keyed on what HookStore holds, which builds again once a
\* callback has been registered.
routes_keyedOnHooks(cached, spa, callbacks, built) ==
  IF cached # Undefined /\ cached = buildRoutes(spa, callbacks, cached.ref)
    THEN [tree |-> cached, cached |-> cached, built |-> built, hooksRun |-> <<>>,
          invoked |-> {}]
    ELSE LET tree == buildRoutes(spa, callbacks, built + 1)
         IN [tree |-> tree, cached |-> tree, built |-> built + 1, hooksRun |-> callbacks,
             invoked |-> invokedIn(tree)]

\* routes(), that is memoize(buildRoutes) called with no argument: lodash keys
\* its cache on the first argument, here always undefined, so the cache holds
\* at most the one tree.  `hooksRun` are the callbacks the call invoked.
routes(cached, spa, callbacks, built) ==
  IF cached # Undefined
    THEN [tree |-> cached, cached |-> cached, built |-> built, hooksRun |-> <<>>,
          invoked |-> {}]
    ELSE LET tree == buildRoutes(spa, callbacks, built + 1)
         IN [tree |-> tree, cached |-> tree, built |-> built + 1, hooksRun |-> callbacks,
             invoked |-> invokedIn(tree)]

\* ------------------------------------------------------------ the state

VARIABLES
  replay,     \* the replay prop of the last render, as the render left it
  nav,        \* the tab the location named at the last render
  active,     \* the active tab of the last render
  ctx,        \* the replay context of the last render
  memo,       \* the component's useMemo cell
  out,        \* what the last render returned and did
  experimentalSpa, \* EXPERIMENTAL_SPA
  hookStore,  \* the callbacks registered in HookStore under 'routes'
  hookRuns,   \* how often each callback was invoked
  cache,      \* the cache of the memoized routes
  builds,     \* how often buildRoutes ran
  calls,      \* how often each caller called routes()
  returned_refs, \* the references of the trees routes() returned
  invoked,    \* the import resolvers the last step called
  location,   \* the pathname the router matched last
  matched,    \* the branch of routes and the parameters of that match
  loads       \* the load promise of each getComponent of that branch

vars == <<replay, nav, active, ctx, memo, out>>
routerVars == <<location, matched, loads>>
routeVars == <<experimentalSpa, hookStore, hookRuns, cache, builds, calls, returned_refs,
               invoked, routerVars>>
allVars == <<vars, routeVars>>

NotRendered == [output |-> [type |-> "(none)"], built |-> {}, derived |-> {},
                factoryRan |-> FALSE, memorySpans |-> Undefined,
                steps |-> <<>>, given |-> Null]

\* The component before its first render.
FocusAreaInit ==
  /\ replay = Null
  /\ nav = NoTab
  /\ active = DefaultTab
  /\ ctx = ReplayContext(0, 1)
  /\ memo = [mounted |-> FALSE]
  /\ out = NotRendered

\* The values of the parameters in the pathnames requested.
ExampleParams ==
  [orgId |-> Seg("o"), projectId |-> Seg("p"), ruleId |-> Seg("r"), keyId |-> Seg("k"),
   pluginId |-> Seg("g"), providerKey |-> Seg("v"), platform |-> Seg("python")]

\* The sub-paths of /:orgId/:projectId/settings/ that have a redirect, each as
\* its redirect names it in `to`.
RedirectedSubPaths ==
  {Rel(SubSeq(projectSettingsRedirects[i].to.segments,
              Len(projectSettingsRedirects[i].to.segments)
                - Len(projectSettingsRedirects[i].path.segments) + 1,
              Len(projectSettingsRedirects[i].to.segments))) :
     i \in 1..Len(projectSettingsRedirects)}

LegacySettings == <<Seg("o"), Seg("p"), Seg("settings")>>

\* The requests for them.
LegacySettingsRequests ==
  {LegacySettings \o formatPattern(sub, ExampleParams) : sub \in RedirectedSubPaths}

\* The pathnames requested.
Locations ==
  LegacySettingsRequests \cup
  { <<>>,
    <<Seg("auth"), Seg("login")>>,
    <<Seg("accept"), Seg("m"), Seg("t")>>,
    <<Seg("extensions"), Seg("s"), Seg("link")>>,
    <<Seg("account")>>,
    <<Seg("hook"), Seg("page"), Seg("view")>>,
    <<Seg("onboarding"), Seg("o")>>,
    <<Seg("onboarding"), Seg("o"), Seg("welcome")>>,
    <<Seg("settings")>>,
    <<Seg("settings"), Seg("o"), Seg("projects"), Seg("p")>>,
    <<Seg("settings"), Seg("o"), Seg("projects"), Seg("p"), Seg("teams")>>,
    <<Seg("settings"), Seg("o"), Seg("p")>>,
    <<Seg("o")>>,
    <<Seg("o"), Seg("p")>>,
    <<Seg("o"), Seg("p"), Seg("issues")>>,
    <<Seg("o"), Seg("p"), Seg("group"), Seg("g")>>,
    <<Seg("o"), Seg("p"), Seg("events"), Seg("e")>>,
    LegacySettings \o <<Seg("install"), <<"python", "'">>>>,
    LegacySettings \o <<Seg("bogus")>>,
    <<Seg("no"), Seg("such"), Seg("page"), Seg("here")>> }

NoLocation == <<Seg("(none)")>>

\* The module routes.tsx just loaded: nothing registered, nothing built.
RoutesInit ==
  /\ hookStore = <<>>
  /\ hookRuns = [h \in HookCallbacks |-> 0]
  /\ cache = Undefined
  /\ builds = 0
  /\ calls = [c \in Callers |-> 0]
  /\ returned_refs = {}
  /\ invoked = {}
  /\ location = NoLocation
  /\ matched = NoMatch
  /\ loads = <<>>

Init == FocusAreaInit /\ RoutesInit /\ experimentalSpa = FALSE

\* React calls FocusArea with these inputs and keeps the hook state.
Render(r, n, c) ==
  LET a == useActiveTabFromLocation(n)
      res == FocusArea(r, a, c, memo)
  IN /\ replay' = res.reader
     /\ nav' = n
     /\ active' = a
     /\ ctx' = c
     /\ memo' = res.cell
     /\ out' = [output |-> res.output, built |-> res.built, derived |-> res.derived,
                factoryRan |-> res.factoryRan, memorySpans |-> res.memorySpans,
                steps |-> res.steps, given |-> r]
     /\ UNCHANGED routeVars

\* The first render of the component.
Mount ==
  /\ ~memo.mounted
  /\ \E r \in ReplayProps, n \in NavigationStates, c \in Contexts : Render(r, n, c)

\* The parent passes another replay: the data arrived, was replaced or dropped.
ReplayChange ==
  /\ memo.mounted
  /\ \E r \in ReplayProps \ {replay} : Render(r, nav, ctx)

\* The location changes the tab it names.
Navigate ==
  /\ memo.mounted
  /\ \E n \in NavigationStates \ {nav} : Render(replay, n, ctx)

\* The replay context changes the current time or the hover time.
ContextChange ==
  /\ memo.mounted
  /\ \E c \in Contexts \ {ctx} : Render(replay, nav, c)

\* The parent renders again with nothing changed.
Rerender ==
  /\ memo.mounted
  /\ Render(replay, nav, ctx)

Next == Mount \/ ReplayChange \/ Navigate \/ ContextChange \/ Rerender

Spec == Init /\ [][Next]_allVars

\* A plugin registers a callback under 'routes'.
RegisterHook ==
  /\ Len(hookStore) < MaxHooks
  /\ \E h \in HookCallbacks : hookStore' = Append(hookStore, h)
  /\ invoked' = {}
  /\ UNCHANGED <<experimentalSpa, hookRuns, cache, builds, calls, returned_refs>>
  /\ UNCHANGED routerVars
  /\ UNCHANGED vars

\* The SDK's initialisation, or Main, calls routes().
CallRoutes ==
  \E caller \in Callers :
    /\ calls[caller] < MaxCalls
    /\ LET res == routes(cache, experimentalSpa, hookStore, builds)
       IN /\ cache' = res.cached
          /\ builds' = res.built
          /\ returned_refs' = returned_refs \cup {res.tree.ref}
          /\ invoked' = res.invoked
          /\ hookRuns' = [h \in HookCallbacks |->
                            hookRuns[h] + Len(SelectSeq(res.hooksRun, LAMBDA x : x = h))]
    /\ calls' = [calls EXCEPT ![caller] = @ + 1]
    /\ UNCHANGED <<experimentalSpa, hookStore>>
    /\ UNCHANGED routerVars
    /\ UNCHANGED vars

InitRoutes == FocusAreaInit /\ RoutesInit /\ experimentalSpa \in BOOLEAN

NextRoutes == RegisterHook \/ CallRoutes

SpecRoutes == InitRoutes /\ [][NextRoutes]_allVars

\* The pattern of the routes of a branch up to the i-th, from the last
\* absolute one on (getRoutePattern).
RECURSIVE patternUpTo(_, _)
patternUpTo(branch, i) ==
  IF i = 0
    THEN <<>>
    ELSE IF branch[i].path.absolute
      THEN branch[i].path.segments
      ELSE patternUpTo(branch, i - 1) \o branch[i].path.segments

IsRedirect(route) == route.kind \in {"Redirect", "IndexRedirect"}
Leaf(m) == m.branch[Len(m.branch)]

\* Where the redirect at the leaf of a match sends the router: its `to` under
\* the parameters of the match, below the pattern of its parent when relative.
redirectTo(m) ==
  LET to == Leaf(m).to
  IN IF to.absolute
       THEN formatPattern(to, m.params)
       ELSE formatPattern(Abs(patternUpTo(m.branch, Len(m.branch) - 1) \o to.segments),
                          m.params)

\* The props the router renders a route component with.
RouterProps(m, pathname) == [params |-> m.params, location |-> pathname]

\* The promises of the getComponent calls of a branch, each with the place of
\* its route in the branch.
getComponents(branch) ==
  LET at == {i \in 1..Len(branch) : "getComponent" \in DOMAIN branch[i]}
      RECURSIVE from(_)
      from(i) ==
        IF i > Len(branch)
          THEN <<>>
          ELSE IF i \in at
            THEN <<[at |-> i, load |-> branch[i].getComponent.load, state |-> "pending",
                    reacted |-> FALSE, calls |-> <<>>]>> \o from(i + 1)
            ELSE from(i + 1)
  IN from(1)

\* The match of a pathname against a route tree; the routes of the branch are
\* kept without their children.
matchLocation(tree, pathname) ==
  CHOOSE found \in
    {IF m.matched
       THEN [m EXCEPT !.branch = [i \in 1..Len(m.branch) |->
                                    [m.branch[i] EXCEPT !.children = <<>>]]]
       ELSE NoMatch
      : m \in {matchRoutes(top, path, Remaining(path), NoParams)
                : top \in {<<tree>>}, path \in {pathname}}} : TRUE

\* The match of each pathname against the tree that a first call of routes()
\* builds from each flag and each list of callbacks, worked out once.
Matches ==
  LET table == [spa \in BOOLEAN, callbacks \in BoundedSeq(HookCallbacks, MaxHooks),
                pathname \in Locations |->
                  matchLocation(buildRoutes(spa, callbacks, 1), pathname)]
  IN IF table = table THEN table ELSE table

\* The router matches a pathname against the routes it was given at Main's
\* render, and either follows the redirect at the leaf or calls the
\* getComponent of each route of the branch.
MatchLocation ==
  /\ cache # Undefined
  /\ calls["main"] > 0
  /\ \A i \in 1..Len(loads) : loads[i].reacted
  /\ \E pathname \in Locations :
       LET m == IF cache = buildRoutes(experimentalSpa, hookStore, 1)
                  THEN Matches[experimentalSpa, hookStore, pathname]
                  ELSE matchLocation(cache, pathname)
           started == IF IsRedirect(Leaf(m)) THEN <<>> ELSE getComponents(m.branch)
       IN /\ m.matched
          /\ location' = pathname
          /\ matched' = m
          /\ loads' = started
          /\ invoked' = {started[i].load : i \in 1..Len(started)}
  /\ UNCHANGED <<experimentalSpa, hookStore, hookRuns, cache, builds, calls, returned_refs>>
  /\ UNCHANGED vars

\* The promise of a load is fulfilled with the module, or rejected.
LoadSettles ==
  /\ \E i \in 1..Len(loads), outcome \in {"fulfilled", "rejected"} :
       /\ loads[i].state = "pending"
       /\ loads' = [loads EXCEPT ![i].state = outcome]
  /\ invoked' = {}
  /\ UNCHANGED <<experimentalSpa, hookStore, hookRuns, cache, builds, calls, returned_refs>>
  /\ UNCHANGED <<location, matched>>
  /\ UNCHANGED vars

\* The reaction to a settled promise runs.
PromiseReaction ==
  /\ \E i \in 1..Len(loads) :
       /\ loads[i].state # "pending"
       /\ ~loads[i].reacted
       /\ loads' = [loads EXCEPT
                      ![i].reacted = TRUE,
                      ![i].calls = @ \o lazyLoadSettled(loads[i].state, Module(loads[i].load))]
  /\ invoked' = {}
  /\ UNCHANGED <<experimentalSpa, hookStore, hookRuns, cache, builds, calls, returned_refs>>
  /\ UNCHANGED <<location, matched>>
  /\ UNCHANGED vars

\* The application started: the plugins registered their callbacks, and Main
\* rendered the router with routes(), the first call of it.
InitRouter ==
  /\ FocusAreaInit
  /\ experimentalSpa \in BOOLEAN
  /\ hookStore \in BoundedSeq(HookCallbacks, MaxHooks)
  /\ LET res == routes(Undefined, experimentalSpa, hookStore, 0)
     IN /\ cache = res.cached
        /\ builds = res.built
        /\ returned_refs = {res.tree.ref}
        /\ invoked = res.invoked
        /\ hookRuns = [h \in HookCallbacks |-> Len(SelectSeq(res.hooksRun, LAMBDA x : x = h))]
  /\ calls = [c \in Callers |-> IF c = "main" THEN 1 ELSE 0]
  /\ location = NoLocation
  /\ matched = NoMatch
  /\ loads = <<>>

NextRouter == MatchLocation \/ LoadSettles \/ PromiseReaction

SpecRouter == InitRouter /\ [][NextRouter]_allVars

\* Whether every getComponent of the branch handed its component to the router.
Loaded == \A i \in 1..Len(loads) : Len(loads[i].calls) > 0 /\ loads[i].calls[1].error = Null

\* The component of the i-th route of the matched branch: its own, or the one
\* its getComponent handed over.
componentAt(i) ==
  IF "getComponent" \in DOMAIN matched.branch[i]
    THEN LET k == CHOOSE k \in 1..Len(loads) : loads[k].at = i
         IN loads[k].calls[1].component
    ELSE matched.branch[i].component

\* The elements the router renders for the matched branch, outermost first:
\* none before every component is there, and none on a redirect.
Elements ==
  IF ~matched.matched \/ IsRedirect(Leaf(matched)) \/ ~Loaded
    THEN <<>>
    ELSE LET at == {i \in 1..Len(matched.branch) :
                      \/ "getComponent" \in DOMAIN matched.branch[i]
                      \/ matched.branch[i].component # NoComponent}
             RECURSIVE from(_)
             from(i) ==
               IF i > Len(matched.branch)
                 THEN <<>>
                 ELSE IF i \in at
                   THEN <<renderComponent(componentAt(i), RouterProps(matched, location))>>
                          \o from(i + 1)
                   ELSE from(i + 1)
         IN from(1)

\* ------------------------------------------------------------ the claims

\* The panel the switch binds to each declared key.
PanelFor(key) ==
  CASE key = "console" -> "Console"
    [] key = "network" -> "Spans"
    [] key = "trace" -> "Trace"
    [] key = "issues" -> "IssueList"
    [] key = "tags" -> "TagsTable"
    [] key = "memory" -> "MemoryChart"

Available == memo.mounted /\ replay # Null
Unavailable == memo.mounted /\ replay = Null

\* The reference of a memoised value: 0 for undefined.
RefOf(value) == IF value = Undefined THEN 0 ELSE value.ref

IsConsoleCrumb(crumb) == crumb.category = "console"
IsDefaultConsoleCrumb(crumb) == crumb.type = "default" /\ crumb.category = "console"
IsMemoryOp(span) == span.op = "memory"
NoMemorySpans(r) == \A i \in 1..Len(r.spans) : r.spans[i].op # "memory"

\* Two renders in a row with the same replay, active tab and replay context.
SameArguments == memo.mounted /\ replay' = replay /\ active' = active /\ ctx' = ctx

\* C1: whatever the active tab, declared or unknown, a render with a null
\* replay returns the placeholder and builds no panel.
C1_PlaceholderWhenUnavailable ==
  Unavailable => out.output = Placeholder /\ out.built = {}

C1_Witness ==
  Unavailable /\ active = "trace" /\ out.output = Placeholder

\* C2 as stated: for every active tab that is no declared key, the render
\* returns the empty output.
C2_Original ==
  (memo.mounted /\ active \notin PanelKeys) => out.output = NullOutput

\* C2, amended: for every active tab that is no declared key the render never
\* throws; with a replay it returns the empty output and builds nothing, and
\* with a null replay it returns the placeholder.
C2_UnknownKeyRendersNothing ==
  (memo.mounted /\ active \notin PanelKeys) =>
    /\ out.output # TypeError
    /\ out.built = {}
    /\ replay # Null => out.output = NullOutput
    /\ replay = Null => out.output = Placeholder

C2_Witness ==
  Available /\ active = "unknown-tab" /\ out.output = NullOutput

\* C3: for each declared key and every replay, the render returns the panel
\* bound to that key: not the empty output, not another key's panel.
C3_DeclaredKeyRendersItsPanel ==
  (Available /\ active \in PanelKeys) =>
    /\ out.output.type = PanelFor(active)
    /\ out.built = {out.output}

C3_Witness ==
  Available /\ active = "issues" /\ out.output.type = "IssueList"

\* C4: from one render to the next, the memoised memory spans are the same
\* reference when the replay is the same object, and when the replay is
\* another object the callback runs again and its result is another reference.
C4_MemoReference ==
  [][memo.mounted =>
       /\ replay' = replay =>
            ~out'.factoryRan /\ RefOf(out'.memorySpans) = RefOf(out.memorySpans)
       /\ replay' # replay =>
            out'.factoryRan /\ RefOf(out'.memorySpans) # RefOf(out.memorySpans)]_vars

\* The second array was allocated for a second replay while the first was
\* alive, and a later render of that replay got it from the cache.
C4_Witness ==
  Available /\ RefOf(out.memorySpans) = 2 /\ ~out.factoryRan

C6_EmptyIsNotUnavailable ==
  /\ Unavailable => out.memorySpans = Undefined
  /\ (Available /\ NoMemorySpans(replay)) =>
       /\ out.memorySpans # Undefined
       /\ out.memorySpans.items = <<>>
       /\ out.output # Placeholder
       /\ active \in PanelKeys => out.output.type = PanelFor(active)

C6_Witness ==
  /\ Available /\ NoMemorySpans(replay) /\ active = "memory"
  /\ out.output.type = "MemoryChart"
  /\ out.output.props.memorySpans.items = <<>>

\* C7: a panel is built only with what it requires: never with a null replay,
\* undefined memory spans or an undefined event.
C7_PanelsGetTheirInputs ==
  \A el \in out.built :
    /\ replay # Null
    /\ out.memorySpans # Undefined
    /\ el.type = "MemoryChart" => el.props.memorySpans # Undefined
    /\ el.type \in {"Trace", "TagsTable"} => el.props.event # Undefined
    /\ el.type = "Spans" => {"id", "projectID", "startTimestamp"} \subseteq DOMAIN el.props.event

C7_Witness ==
  \E el \in out.built :
    el.type = "MemoryChart" /\ Len(el.props.memorySpans.items) = 1

\* C8: a render returns one output: the placeholder, the empty output or the
\* panel bound to the active key; it never builds two panels.
C8_OneOutput ==
  memo.mounted =>
    /\ Cardinality(out.built) <= 1
    /\ \/ out.output = Placeholder /\ out.built = {}
       \/ out.output = NullOutput /\ out.built = {}
       \/ /\ active \in PanelKeys
          /\ out.output.type = PanelFor(active)
          /\ out.built = {out.output}

C8_Witness ==
  Available /\ active = "trace" /\ Cardinality(out.built) = 1 /\ out.built = {out.output}

\* C9 as stated: on the console tab the panel gets exactly the replay's
\* breadcrumbs whose category is console, in their order.
C9_Original ==
  (Available /\ active = "console") =>
    out.output.props.breadcrumbs = SelectSeq(replay.crumbs, IsConsoleCrumb)

\* C9, amended: on the console tab the panel gets exactly the replay's
\* breadcrumbs of the default type whose category is console, in their order;
\* none of another category or without a category is passed, and one of
\* another type is dropped even when its category is console.
C9_DefaultConsoleCrumbs ==
  (Available /\ active = "console") =>
    /\ out.output.type = "Console"
    /\ out.output.props.breadcrumbs = SelectSeq(replay.crumbs, IsDefaultConsoleCrumb)
    /\ \A i \in 1..Len(out.output.props.breadcrumbs) :
         out.output.props.breadcrumbs[i].category = "console"

\* Two console breadcrumbs, one of them of type http: only the other is passed.
C9_Witness ==
  /\ Available /\ active = "console"
  /\ Len(SelectSeq(replay.crumbs, IsConsoleCrumb)) = 2
  /\ Len(out.output.props.breadcrumbs) = 1

\* C10: on the memory tab the panel gets exactly the raw spans of the replay
\* of this render that are memory spans, in their order.
C10_MemorySpansOfThisReplay ==
  (Available /\ active = "memory") =>
    /\ out.output.type = "MemoryChart"
    /\ out.output.props.memorySpans.items = SelectSeq(replay.spans, IsMemoryOp)

\* Two memory spans that differ, of a replay that replaced another.
C10_Witness ==
  /\ Available /\ active = "memory"
  /\ RefOf(out.memorySpans) = 2
  /\ Len(out.output.props.memorySpans.items) = 2
  /\ out.output.props.memorySpans.items[1] # out.output.props.memorySpans.items[2]

\* The place of a call in the calls of the last render, 0 when it was not made.
StepIndex(step) ==
  IF \E i \in 1..Len(out.steps) : out.steps[i] = step
    THEN CHOOSE i \in 1..Len(out.steps) : out.steps[i] = step
    ELSE 0
Took(step) == StepIndex(step) > 0
Before(first, second) ==
  Took(first) /\ Took(second) /\ StepIndex(first) < StepIndex(second)

\* The lists the panel of a key requires besides the memory spans.
RequiredLists(key) ==
  CASE key = "console" -> {"consoleMessages"}
    [] key = "network" -> {"nonMemorySpans"}
    [] OTHER -> {}

\* An element with the reference of its memory spans left out: their items.
ByValue(el) ==
  IF el.type = "MemoryChart"
    THEN [el EXCEPT !.props.memorySpans = @.items]
    ELSE el

\* What a component mounted just now returns for the present arguments.
FirstRender == FocusArea(replay, active, ctx, [mounted |-> FALSE])

\* C11: a render of the memory tab never derives the spans that are no memory
\* spans: with a replay it returns the memory chart, which gets no event and
\* no entry built from them.
C11_MemoryTabDerivesNoOtherSpans ==
  (memo.mounted /\ active = "memory") =>
    /\ "nonMemorySpans" \notin out.derived
    /\ replay # Null =>
         /\ out.output.type = "MemoryChart"
         /\ "event" \notin DOMAIN out.output.props

\* The replay has a span that is no memory span, and the memory tab is shown.
C11_Witness ==
  /\ Available /\ active = "memory"
  /\ \E i \in 1..Len(replay.spans) : replay.spans[i].op # "memory"
  /\ out.output.type = "MemoryChart"

\* C12 as stated: a render derives what the active panel requires and nothing
\* else; a render of a tab other than memory does not derive the memory spans.
C12_Original ==
  (memo.mounted /\ active # "memory") =>
    /\ out.derived = (IF replay = Null THEN {} ELSE RequiredLists(active))
    /\ ~(out.factoryRan /\ replay # Null)

\* C12, amended: inside the switch a render derives exactly the list the
\* active panel requires: the console breadcrumbs on the console tab, the other
\* spans on the network tab, nothing on any other tab and nothing without a
\* replay.  The memory spans are derived before the switch, whatever the active
\* tab: on the first render and on each render whose replay is not the object
\* of the render before, and on no other.
C12_RequiredListsAndMemorySpans ==
  [][/\ out'.derived = (IF replay' = Null THEN {} ELSE RequiredLists(active'))
     /\ out'.factoryRan <=> (~memo.mounted \/ replay' # replay)
     /\ (out'.factoryRan /\ replay' # Null) =>
          out'.memorySpans.items = SelectSeq(replay'.spans, IsMemoryOp)]_vars

\* The trace tab is shown, and this render derived the memory spans of its
\* replay, one at least.
C12_Witness ==
  /\ Available /\ active = "trace" /\ out.factoryRan
  /\ out.derived = {}
  /\ Len(out.memorySpans.items) > 0

\* C13 as stated: the readiness check comes before the key resolution, which
\* comes before the lookup; when the replay is null neither the key resolution
\* nor the lookup is attempted.
C13_Original ==
  memo.mounted =>
    /\ Took("useActiveTabFromLocation") => Before("guard", "useActiveTabFromLocation")
    /\ Took("switch") => Before("useActiveTabFromLocation", "switch")
    /\ replay = Null => ~Took("useActiveTabFromLocation") /\ ~Took("switch")

\* C13, amended: every render resolves the active tab first, then derives the
\* memory spans through the memo, then checks readiness; when the replay is
\* null it returns the placeholder after the key resolution and without the
\* lookup; otherwise the lookup follows the readiness check and the lists of
\* the active panel are derived inside it.
C13_HooksThenGuardThenSwitch ==
  memo.mounted =>
    /\ Before("useActiveTabFromLocation", "useMemo")
    /\ Before("useMemo", "guard")
    /\ replay = Null =>
         ~Took("switch") /\ ~Took("getEvent") /\ out.output = Placeholder
    /\ replay # Null =>
         Before("guard", "getEvent") /\ Before("getEvent", "switch")
    /\ out.derived # {} => Took("switch")

\* A render with a null replay resolved the active tab and stopped at the guard.
C13_Witness ==
  /\ Unavailable /\ active = "network"
  /\ Took("useActiveTabFromLocation") /\ Took("guard") /\ ~Took("switch")

\* C14: the output of a render is the output of a first render with the same
\* replay, active tab and replay context, whatever was rendered before; the
\* memory spans are compared by their items, their array being the one the
\* memo holds.
C14_OutputOfPresentArguments ==
  memo.mounted => ByValue(out.output) = ByValue(FirstRender.output)

\* The memory chart of a second replay, rendered from the memo.
C14_Witness ==
  /\ Available /\ active = "memory" /\ ~out.factoryRan
  /\ RefOf(out.memorySpans) = 2
  /\ out.output.type = "MemoryChart"

\* C15: the memo is keyed on the replay of this render, and every list handed
\* to a panel is derived from this replay: the memory spans, the console
\* breadcrumbs, the entry of the other spans; without a replay nothing is
\* handed over and the memory spans are undefined.
C15_DerivedFromThisReplay ==
  memo.mounted =>
    /\ memo.deps = <<replay>>
    /\ out.memorySpans = memo.value
    /\ replay = Null => out.memorySpans = Undefined /\ out.built = {}
    /\ replay # Null =>
         /\ out.memorySpans.items = SelectSeq(replay.spans, IsMemoryOp)
         /\ active = "memory" => out.output.props.memorySpans = out.memorySpans
         /\ active = "console" =>
              out.output.props.breadcrumbs = SelectSeq(replay.crumbs, IsDefaultConsoleCrumb)
         /\ active = "network" =>
              out.output.props.event.entries[1].data =
                mapSpans(SelectSeq(replay.spans, isNotMemorySpan))

\* The network tab of a replay that took the place of another one with the
\* same data.
C15_Witness ==
  /\ Available /\ active = "network" /\ replay.instance = "B"
  /\ RefOf(out.memorySpans) = 2
  /\ Len(out.output.props.event.entries[1].data) > 0

\* C16: a render calls no setter of the replay context; the memory chart gets
\* the current time, the hover time and the two setters as the context holds
\* them, and no other panel gets any of them.
C16_ContextReadOnly ==
  memo.mounted =>
    /\ ~Took("setCurrentTime") /\ ~Took("setCurrentHoverTime")
    /\ \A el \in out.built :
         IF el.type = "MemoryChart"
           THEN /\ el.props.currentTime = ctx.currentTime
                /\ el.props.currentHoverTime = ctx.currentHoverTime
                /\ el.props.setCurrentTime = ctx.setCurrentTime
                /\ el.props.setCurrentHoverTime = ctx.setCurrentHoverTime
           ELSE DOMAIN el.props \cap DOMAIN ctx = {}

\* The memory chart with a current time that is not the hover time.
C16_Witness ==
  /\ Available /\ active = "memory"
  /\ out.output.props.currentTime = 1 /\ out.output.props.currentHoverTime = 0

\* C17: after a render the replay is as it was given: its raw spans, its raw
\* breadcrumbs and its event; on the network tab the event handed to the
\* panel is another object, which the replay's event does not become.
C17_ReplayUnchanged ==
  memo.mounted =>
    /\ replay = out.given
    /\ (replay # Null /\ active = "network") =>
         /\ out.output.props.event # getEvent(replay)
         /\ "entries" \notin DOMAIN getEvent(replay)

\* The network tab with a span renamed into the event handed to the panel.
C17_Witness ==
  /\ Available /\ active = "network" /\ replay = out.given
  /\ Len(out.output.props.event.entries[1].data) > 0
  /\ "start_timestamp" \in DOMAIN out.output.props.event.entries[1].data[1]

\* C18: every location resolves to an active tab: the tab it names, and the
\* default tab when it names none or what it names is malformed; no render
\* throws, whatever the location.
C18_ResolverTotal ==
  memo.mounted =>
    /\ active \in ActiveValues
    /\ nav \in ActiveValues => active = nav
    /\ nav \notin ActiveValues => active = DefaultTab
    /\ out.output # TypeError

\* A malformed location with a replay: the default tab's panel.
C18_Witness ==
  /\ Available /\ nav = "%%" /\ active = DefaultTab
  /\ out.output.type = PanelFor(DefaultTab)

\* C19: a render returns the placeholder exactly when its replay is null; the
\* first render after the replay arrives leaves the placeholder, and while a
\* replay is given no render returns it.
C19_LoadingExactlyWhileUnavailable ==
  /\ [](memo.mounted => (out.output = Placeholder <=> replay = Null))
  /\ [][(Unavailable /\ replay' # Null) =>
          (out.output = Placeholder /\ out'.output # Placeholder)]_vars
  /\ [][(Available /\ replay' # Null) => out'.output # Placeholder]_vars

\* The replay arrived after a render without it, and the console is shown.
C19_Witness ==
  /\ Available /\ out.factoryRan /\ RefOf(out.memorySpans) = 1
  /\ NoMemorySpans(replay)
  /\ active = "console" /\ out.output.type = "Console"

\* C20: however often the SDK's initialisation and Main call routes(),
\* buildRoutes runs once, at the first call, and every call returns the one
\* tree.
C20_RoutesBuiltOnce ==
  /\ builds <= 1
  /\ (\E c \in Callers : calls[c] > 0) =>
       /\ builds = 1
       /\ cache # Undefined
       /\ returned_refs = {cache.ref}
  /\ (\A c \in Callers : calls[c] = 0) => builds = 0 /\ returned_refs = {}

\* Both callers called, Main twice, with a hook route registered.
C20_Witness ==
  /\ calls["sdk"] >= 1 /\ calls["main"] >= 2
  /\ Len(hookStore) > 0
  /\ builds = 1

\* The route tree the router was given, its root route and the paths below a
\* route.
TopRoutes == cache.children
RootRoute == TopRoutes[CHOOSE i \in 1..Len(TopRoutes) : TopRoutes[i].path = Abs(<<>>)]
RECURSIVE pathsBelow(_)
pathsBelow(route) ==
  {route.children[i].path : i \in 1..Len(route.children)}
  \cup UNION {pathsBelow(route.children[i]) : i \in 1..Len(route.children)}

LoginPattern == Abs(<<L("auth"), L("login")>>)
LoginLocation == <<Seg("auth"), Seg("login")>>

\* The types of the components of the matched branch.
BranchComponents == {matched.branch[i].component.type : i \in 1..Len(matched.branch)}

\* Whether the router has matched a pathname and the match is not a redirect.
Renders == matched.matched /\ ~IsRedirect(Leaf(matched))

\* C21: building the route tree calls no import resolver, and a match calls
\* only the resolvers of the getComponent routes of its branch; the resolver of
\* a component made by makeLazyloadComponent is handed to SafeLazyLoad when the
\* router renders the component of a matched route, with the props of the
\* render unchanged.
C21_ResolversWaitForTheirRoute ==
  /\ location = NoLocation => invoked = {}
  /\ invoked \subseteq {loads[i].load : i \in 1..Len(loads)}
  /\ \A i \in 1..Len(Elements) :
       Elements[i].type = "SafeLazyLoad" =>
         /\ \E j \in 1..Len(matched.branch) :
              /\ matched.branch[j].component.type = "LazyloadComponent"
              /\ matched.branch[j].component.resolve = Elements[i].props.component
         /\ [k \in DOMAIN Elements[i].props \ {"component"} |-> Elements[i].props[k]]
              = RouterProps(matched, location)

\* The invitation view is rendered: SafeLazyLoad got its resolver and the
\* parameters of the route.
C21_Witness ==
  /\ location = <<Seg("accept"), Seg("m"), Seg("t")>>
  /\ Len(Elements) = 2
  /\ Elements[2].type = "SafeLazyLoad"
  /\ Elements[2].props.component = "sentry/views/acceptOrganizationInvite"
  /\ Elements[2].props.params.token = Seg("t")
  /\ invoked = {}

\* C22: the route of /auth/login/ is in the tree if and only if EXPERIMENTAL_SPA
\* is set; it is then a sibling of the root route, with no route of that path
\* below the root, and its pathname renders under AuthLayout and not under App.
C22_ExperimentalSpaBesideRoot ==
  cache # Undefined =>
    /\ Cardinality({i \in 1..Len(TopRoutes) : TopRoutes[i].path = Abs(<<>>)}) = 1
    /\ RootRoute.component = errorHandler("App")
    /\ (\E i \in 1..Len(TopRoutes) : TopRoutes[i].path = LoginPattern) <=> experimentalSpa
    /\ LoginPattern \notin pathsBelow(RootRoute)
    /\ location = LoginLocation =>
         IF experimentalSpa
           THEN "AuthLayout" \in BranchComponents /\ "App" \notin BranchComponents
           ELSE "AuthLayout" \notin BranchComponents

\* With the flag set, /auth/login/ renders the login view.
C22_Witness ==
  /\ experimentalSpa /\ location = LoginLocation
  /\ Leaf(matched).component.type = "LazyloadComponent"
  /\ Leaf(matched).component.resolve = "sentry/views/auth/login"

\* How often a callback is in a list of callbacks.
Registered(callbacks, h) == Len(SelectSeq(callbacks, LAMBDA x : x = h))

\* C23: the first call of routes() invokes each callback registered by then
\* once for each registration and builds the tree with their routes; from then
\* on no callback is invoked and the tree returned stays the same, whatever is
\* registered later.
C23_HooksReadAtTheBuild ==
  [][/\ (cache = Undefined /\ cache' # Undefined) =>
          /\ cache' = buildRoutes(experimentalSpa, hookStore, 1)
          /\ \A h \in HookCallbacks : hookRuns'[h] = Registered(hookStore, h)
     /\ cache # Undefined => cache' = cache /\ hookRuns' = hookRuns
     /\ cache' = Undefined => \A h \in HookCallbacks : hookRuns'[h] = 0]_allVars

\* A callback registered after the tree was built, and routes() called again
\* by both callers: it was not invoked and the tree has no route of it.
C23_Witness ==
  /\ cache # Undefined
  /\ hookStore = <<"h2", "h1">>
  /\ hookRuns["h2"] = 1 /\ hookRuns["h1"] = 0
  /\ cache = buildRoutes(experimentalSpa, <<"h2">>, 1)
  /\ calls["sdk"] = MaxCalls /\ calls["main"] = MaxCalls

\* C24: the router's callback is not called while the load is pending or its
\* reaction has not run; once the reaction to a fulfilled load ran it was
\* called once, with null and the default export of the module; after a
\* rejected load it is not called at all.
C24_CallbackOnceOnFulfilment ==
  \A i \in 1..Len(loads) :
    /\ Len(loads[i].calls) <= 1
    /\ (loads[i].state = "pending" \/ ~loads[i].reacted) => loads[i].calls = <<>>
    /\ (loads[i].state = "fulfilled" /\ loads[i].reacted) =>
         loads[i].calls = <<[error |-> Null, component |-> Module(loads[i].load).default]>>
    /\ loads[i].state = "rejected" => loads[i].calls = <<>>

\* The load of the project settings layout was fulfilled and handed over.
C24_Witness ==
  /\ Len(loads) = 1
  /\ loads[1].load = "sentry/views/settings/project/projectSettingsLayout"
  /\ loads[1].state = "fulfilled" /\ loads[1].reacted
  /\ Len(loads[1].calls) = 1
  /\ Len(Elements) > 0

\* The root route with other children, and the leaf of a match against it.
RootWith(children) == Route(Abs(<<>>), errorHandler("App"), children)
BuiltInRoutes == rootRoutes \o <<organizationRoutes, legacyRedirectRoutes>>
MatchUnder(children) == matchLocation(Route(NoPath, NoComponent, <<RootWith(children)>>), location)
NotFound == Renders /\ Leaf(matched).component = errorHandler("RouteNotFound")
UnderRoot == matched.matched /\ Len(matched.branch) > 1 /\ matched.branch[2].path = Abs(<<>>)

\* C25: the children of the root route are the routes of the application, then
\* the hook routes, then the catch-all; a pathname that a route of the
\* application matches gets that match, whatever the hooks registered; one
\* that only a hook route matches gets the hook route; one that neither
\* matches renders RouteNotFound, and no other does.
C25_CatchAllLast ==
  (cache # Undefined /\ matched.matched) =>
    /\ RootRoute.children =
         BuiltInRoutes \o hook(hookStore)
         \o <<Route(Splat, errorHandler("RouteNotFound"), <<>>)>>
    /\ UnderRoot =>
         LET builtIn == MatchUnder(BuiltInRoutes)
             hooked == MatchUnder(hook(hookStore))
         IN /\ builtIn.matched => Leaf(matched) = Leaf(builtIn)
            /\ (~builtIn.matched /\ hooked.matched) => Leaf(matched) = Leaf(hooked)
            /\ NotFound <=> (~builtIn.matched /\ ~hooked.matched)

\* A pathname that only a hook route matches renders the hook's page, and
\* /account/ keeps its redirect though a hook route has its path.
C25_Witness ==
  /\ hookStore = <<"h2", "h1">>
  /\ location = <<Seg("hook"), Seg("page"), Seg("view")>>
  /\ Leaf(matched).component = errorHandler("HookPage")
  /\ IsRedirect(Leaf(Matches[experimentalSpa, hookStore, <<Seg("account")>>]))

\* C26 as stated: a request for /:orgId/:projectId/settings/X, X a sub-path
\* with a redirect, is redirected to /settings/:orgId/projects/:projectId/X
\* with the same parameter values.
C26_Original ==
  (matched.matched /\ location \in LegacySettingsRequests) =>
    /\ IsRedirect(Leaf(matched))
    /\ redirectTo(matched) =
         <<Seg("settings"), Seg("o"), Seg("projects"), Seg("p")>>
         \o SubSeq(location, 4, Len(location))

\* The spans of the replay that are no memory spans, in their order.
OtherSpans == SelectSeq(replay.spans, LAMBDA span : span.op # "memory")

\* C27: on the network tab the event handed to the panel has one entry, of type
\* spans, with one span for each span of the replay that is no memory span, in
\* their order: its timestamp is the end and its start_timestamp the start of
\* the original, which it no longer carries under their old names, and its
\* parent is the span of the trace context of the event; the other fields of
\* each span and of the event are those of the original.
C27_SyntheticEvent ==
  (Available /\ active = "network") =>
    LET event == out.output.props.event
        data == event.entries[1].data
    IN /\ out.output.type = "Spans"
       /\ Len(event.entries) = 1
       /\ event.entries[1].type = "spans"
       /\ Len(data) = Len(OtherSpans)
       /\ \A i \in 1..Len(data) :
            /\ data[i].timestamp = OtherSpans[i].endTimestamp
            /\ data[i].start_timestamp = OtherSpans[i].startTimestamp
            /\ DOMAIN data[i] \cap {"startTimestamp", "endTimestamp"} = {}
            /\ data[i].parent_span_id = event.contexts.trace.span_id
            /\ \A f \in DOMAIN OtherSpans[i] \ {"startTimestamp", "endTimestamp"} :
                 data[i][f] = OtherSpans[i][f]
            /\ DOMAIN data[i] =
                 (DOMAIN OtherSpans[i] \ {"startTimestamp", "endTimestamp"})
                 \cup {"timestamp", "start_timestamp", "parent_span_id"}
       /\ event.contexts.trace.span_id = "replay_network_trace"
       /\ DOMAIN event = DOMAIN getEvent(replay) \cup {"contexts", "entries"}
       /\ \A f \in DOMAIN getEvent(replay) : event[f] = getEvent(replay)[f]

\* A memory span and a fetch that took from 1 to 2: the entry has the fetch.
C27_Witness ==
  /\ Available /\ active = "network"
  /\ Len(replay.spans) = 2 /\ Len(OtherSpans) = 1
  /\ out.output.props.event.entries[1].data[1].span_id = "f1"
  /\ out.output.props.event.entries[1].data[1].timestamp = 2
  /\ out.output.props.event.entries[1].data[1].start_timestamp = 1

\* C28: every render calls the four hooks, in the order active tab, replay
\* context, organization, memo of the memory spans, and calls them before the
\* readiness check, with or without a replay and whatever the active tab.
C28_SameHooksEveryRender ==
  memo.mounted =>
    /\ Len(out.steps) >= 5
    /\ SubSeq(out.steps, 1, 4) =
         <<"useActiveTabFromLocation", "useReplayContext", "useOrganization", "useMemo">>
    /\ out.steps[5] = "guard"
    /\ \A i \in 5..Len(out.steps) :
         out.steps[i] \notin
           {"useActiveTabFromLocation", "useReplayContext", "useOrganization", "useMemo"}

\* A render that returned the placeholder after its four hooks, following one
\* that rendered a replay.
C28_Witness ==
  /\ Unavailable /\ active = "tags" /\ out.factoryRan
  /\ Len(out.steps) = 5
  /\ out.output = Placeholder

====
